---- MODULE Spec2Model ----
(***************************************************************************)
(* Model of the goes Elasticsearch client (src/goes.go): the public        *)
(* operations that build a Request, the bulk encoder of BulkSend, and the  *)
(* execution / decoding path Client.Do + Client.doRequest.                 *)
(*                                                                         *)
(* Go strings and byte slices are sequences of tokens (a token is a short  *)
(* piece of text that contains no newline, or the newline token NL).       *)
(* A nil / empty byte slice or string is the empty sequence.               *)
(* An optional value (pointer, map that may be nil) is a sequence of       *)
(* length 0 or 1.                                                          *)
(***************************************************************************)
EXTENDS Integers, Sequences, FiniteSets, TLC

VARIABLES op, docs, doc, req, reply, calls, resp, err, exists

vars == <<op, docs, doc, req, reply, calls, resp, err, exists>>

(* ---------------------------- bounds ----------------------------------- *)
\* longest batch of Documents handed to BulkSend
MaxDocs == 2
\* longest "items" array of a response body
MaxItems == 2

(* ---------------------------- constants -------------------------------- *)
BulkCommandIndex == "index"
BulkCommandDelete == "delete"

\* the nil interface{} value
NilValue == "<nil>"
NL == "\n"
Quote == "\""

\* all sequences over S of length at most n
SeqsUpTo(S, n) == UNION {[1..k -> S] : k \in 0..n}

(* ------------------------- Document.Fields ----------------------------- *)
\* The shapes of Document.Fields BulkSend distinguishes (lines 171-187), and
\* one value json.Marshal rejects.
FieldsValues ==
    { NilValue,           \* nil
      "map[]",            \* map[string]interface{}{}
      "map[k:v]",         \* map[string]interface{}{"k": "v"}
      "map[k:chan]",      \* a map json.Marshal cannot serialize
      "struct{}",         \* a struct type without fields
      "struct{K}",        \* a struct with one field
      "&struct{K}",       \* a pointer to a struct with one field
      "int" }             \* neither a map nor a struct

\* doc.Fields.(map[string]interface{}) succeeds
IsGenericMap(f) == f \in {"map[]", "map[k:v]", "map[k:chan]"}
\* len(docFields)
MapLen(f) == IF f = "map[]" THEN 0 ELSE 1
\* reflect.TypeOf(doc.Fields), with a pointer replaced by its Elem()
KindOf(f) ==
    CASE f \in {"struct{}", "struct{K}", "&struct{K}"} -> "struct"
      [] IsGenericMap(f) -> "map"
      [] OTHER -> "int"
\* typeOfFields.NumField()
NumField(f) == IF f = "struct{}" THEN 0 ELSE 1

(* ---------------------------- json.Marshal ----------------------------- *)
\* json.Marshal fails on a channel and on a value that holds one
Marshalable(v) == v \notin {"map[k:chan]", "<chan>"}

\* json.Marshal of an interface{} holding a string or nil, as tokens
MarshalScalar(v) == IF v = NilValue THEN <<"null">> ELSE <<Quote, v, Quote>>

\* json.Marshal(doc.Fields): one line of JSON, never containing a newline
MarshalFields(f) ==
    CASE f = NilValue -> <<"null">>
      [] f = "map[]" -> <<"{", "}">>
      [] f = "struct{}" -> <<"{", "}">>
      [] f = "map[k:v]" -> <<"{", Quote, "k", Quote, ":", Quote, "v", Quote, "}">>
      [] f \in {"struct{K}", "&struct{K}"} ->
            <<"{", Quote, "K", Quote, ":", Quote, "v", Quote, "}">>
      [] OTHER -> <<"1">>

\* json.Marshal of the action map: keys are written in sorted order
MarshalAction(d) ==
    <<"{", Quote, d.BulkCommand, Quote, ":", "{">>
    \o <<Quote, "_id", Quote, ":">> \o MarshalScalar(d.ID) \o <<",">>
    \o <<Quote, "_index", Quote, ":">> \o MarshalScalar(d.Index) \o <<",">>
    \o <<Quote, "_type", Quote, ":">> \o <<Quote, d.Type, Quote>>
    \o <<"}", "}">>

\* bytes.Join(s, sep)
RECURSIVE Join(_, _)
Join(s, sep) ==
    IF Len(s) = 0 THEN <<>>
    ELSE IF Len(s) = 1 THEN s[1]
    ELSE s[1] \o sep \o Join(Tail(s), sep)

(* ------------------------------ errors --------------------------------- *)
\* A Go error value.  kind "nil" is the nil error; "SearchError" is
\* *SearchError{Msg, StatusCode}; "panic" stands for a failed type assertion
\* (the call does not return normally).
Error(kind, msg, status) == [kind |-> kind, Msg |-> msg, StatusCode |-> status]
NilError == Error("nil", <<>>, 0)
SearchError(msg, status) == Error("SearchError", msg, status)
MarshalError == Error("json.Marshal", <<"unsupported type">>, 0)
UnmarshalError == Error("json.Unmarshal", <<"invalid character">>, 0)
FieldsFormatError ==
    Error("fmt.Errorf",
          <<"Document fields not in struct or map[string]interface{} format">>, 0)
TypeAssertionPanic == Error("panic", <<"interface conversion">>, 0)
ConnectionError == Error("http.Client", <<"dial tcp">>, 0)
ReadError == Error("ioutil.ReadAll", <<"unexpected EOF">>, 0)
UnknownBulkError == SearchError(<<"Unknown error while bulk indexing">>, 0)

(* ----------------------------- Response -------------------------------- *)
\* &Response{}: every field is the zero value
EmptyResponse ==
    [Status |-> 0, Error |-> <<>>, RawError |-> <<>>, Errors |-> FALSE,
     Items |-> <<>>, Raw |-> <<>>]

(* ------------------------------ Request -------------------------------- *)
\* Request{}: every field is the zero value
EmptyRequest ==
    [Query |-> NilValue, IndexList |-> <<>>, TypeList |-> <<>>, Method |-> "",
     API |-> "", ID |-> "", ExtraArgs |-> <<>>, Body |-> <<>>, BulkData |-> <<>>]

(* --------------------------- bulk encoder ------------------------------ *)
\* make([][]byte, n): n nil slices
MakeSlots(n) == [k \in 1..n |-> <<>>]

\* Whether the loop body of BulkSend writes a source line for doc
\* (lines 171-196): "skip" is `continue`, "error" the early returns.
SourceStep(d) ==
    IF d.Fields # NilValue
    THEN IF IsGenericMap(d.Fields)
         THEN (IF MapLen(d.Fields) = 0 THEN "skip"
               ELSE IF Marshalable(d.Fields) THEN "write" ELSE "marshal-error")
         ELSE IF KindOf(d.Fields) # "struct" THEN "format-error"
         ELSE IF NumField(d.Fields) = 0 THEN "skip"
         ELSE IF Marshalable(d.Fields) THEN "write" ELSE "marshal-error"
    ELSE "skip"

\* The for loop of BulkSend (lines 155-197) from document k on; bulkData is
\* the slot array, i the 0-based index of the next free slot.
RECURSIVE BulkLoop(_, _, _, _)
BulkLoop(documents, k, bulkData, i) ==
    IF k > Len(documents) THEN [err |-> NilError, bulkData |-> bulkData, i |-> i]
    ELSE LET d == documents[k]
             step == SourceStep(d)
         IN  IF ~(Marshalable(d.Index) /\ Marshalable(d.ID))
             THEN [err |-> MarshalError, bulkData |-> <<>>, i |-> i]
             ELSE LET withAction == [bulkData EXCEPT ![i + 1] = MarshalAction(d)]
                  IN  CASE step = "skip" -> BulkLoop(documents, k + 1, withAction, i + 1)
                        [] step = "format-error" ->
                             [err |-> FieldsFormatError, bulkData |-> <<>>, i |-> i + 1]
                        [] step = "marshal-error" ->
                             [err |-> MarshalError, bulkData |-> <<>>, i |-> i + 1]
                        [] OTHER ->
                             BulkLoop(documents, k + 1,
                                      [withAction EXCEPT ![i + 2] = MarshalFields(d.Fields)],
                                      i + 2)

\* Lines 152-206 of BulkSend: the Request it builds, or the construction error.
BulkRequest(documents) ==
    LET filled == BulkLoop(documents, 1, MakeSlots(Len(documents) * 2 + 1), 0)
    IN  IF filled.err # NilError THEN [err |-> filled.err, r |-> EmptyRequest]
        ELSE LET n == Len(filled.bulkData)
                 bulkData == [filled.bulkData EXCEPT ![n] = <<>>]
             IN  [err |-> NilError,
                  r |-> [EmptyRequest EXCEPT !.Method = "POST", !.API = "_bulk",
                                             !.BulkData = Join(bulkData, <<NL>>)]]

(* --------------------------- the transport ----------------------------- *)
\* Entries of one element of "items": the Item values of a map[string]Item.
ItemOK == [Error |-> <<>>, Status |-> 200]
ItemConflict == [Error |-> <<"conflict">>, Status |-> 409]
ItemGone == [Error |-> <<"gone">>, Status |-> 404]
ItemBusy == [Error |-> <<"busy">>, Status |-> 429]

\* The elements of "items" the engine may answer with: single-key maps, and
\* one map with two keys (Go ranges over a map in no fixed order).
ItemMaps ==
    { [k \in {"index"} |-> ItemOK],
      [k \in {"index"} |-> ItemConflict],
      [k \in {"index", "delete"} |-> IF k = "index" THEN ItemGone ELSE ItemBusy] }

\* The raw JSON text of the "error" member of a body; <<>> when it is absent.
ErrorMembers ==
    { <<>>,
      <<Quote, Quote>>,
      <<Quote, "boom", Quote>>,
      <<"{", Quote, "type", Quote, ":", Quote, "x", Quote, "}">> }

\* A response body that is a JSON object, by the members the client reads.
JSONBodies ==
    [error : ErrorMembers, errors : BOOLEAN, items : SeqsUpTo(ItemMaps, MaxItems)]

EmptyJSON == [error |-> <<>>, errors |-> FALSE, items |-> <<>>]

\* A body: valid JSON object or not JSON at all.
Bodies == {[valid |-> TRUE, json |-> j] : j \in JSONBodies}
          \cup {[valid |-> FALSE, json |-> EmptyJSON]}

\* string(body)
BodyText(body) == IF body.valid THEN <<"{", "}">> ELSE <<"<html>">>

Statuses == {200, 201, 202, 399, 400, 404, 500}

NoReply == [kind |-> "none", status |-> 0, body |-> [valid |-> FALSE, json |-> EmptyJSON]]

\* What c.Client.Do(req) followed by ioutil.ReadAll can produce: a failed
\* round trip, a response whose body cannot be read, or status and body.
\* A HEAD response carries no body, so reading it cannot fail.
Replies(method) ==
    {[kind |-> "connFail", status |-> 0, body |-> NoReply.body]}
    \cup (IF method = "HEAD" THEN {}
          ELSE {[kind |-> "readFail", status |-> s, body |-> NoReply.body] : s \in Statuses})
    \cup {[kind |-> "ok", status |-> s, body |-> b] : s \in Statuses, b \in Bodies}

(* ------------------------------ doRequest ------------------------------ *)
\* doRequest with the upper end of the error band off by one
doRequestNarrowBand(o) ==
    IF o.kind = "connFail"
    THEN [body |-> NoReply.body, statusCode |-> 0, err |-> ConnectionError]
    ELSE IF o.kind = "readFail"
    THEN [body |-> NoReply.body, statusCode |-> o.status, err |-> ReadError]
    ELSE IF o.status > 201 /\ o.status < 399
    THEN [body |-> NoReply.body, statusCode |-> o.status,
          err |-> Error("errors.New", BodyText(o.body), 0)]
    ELSE [body |-> o.body, statusCode |-> o.status, err |-> NilError]

doRequest(o) ==
    IF o.kind = "connFail"
    THEN [body |-> NoReply.body, statusCode |-> 0, err |-> ConnectionError]
    ELSE IF o.kind = "readFail"
    THEN [body |-> NoReply.body, statusCode |-> o.status, err |-> ReadError]
    ELSE IF o.status > 201 /\ o.status < 400
    THEN [body |-> NoReply.body, statusCode |-> o.status,
          err |-> Error("errors.New", BodyText(o.body), 0)]
    ELSE [body |-> o.body, statusCode |-> o.status, err |-> NilError]

(* ------------------------------- Do ------------------------------------ *)
\* r.Request(): building the *http.Request serializes the Query payload.
RequestBuilds(r) == r.Query = NilValue \/ Marshalable(r.Query)

\* json.Unmarshal(body, &esResp) then json.Unmarshal(body, &esResp.Raw)
Unmarshal(body, esResp) ==
    IF ~body.valid THEN [resp |-> esResp, err |-> UnmarshalError]
    ELSE [resp |-> [esResp EXCEPT !.RawError = body.json.error,
                                  !.Errors = body.json.errors,
                                  !.Items = body.json.items,
                                  !.Raw = <<body.json>>],
          err |-> NilError]

\* json.Unmarshal of a JSON string literal into a Go string
UnquoteString(raw) == SubSeq(raw, 2, Len(raw) - 1)

\* UnifyError without the string-literal case: the raw text is the message
UnifyErrorRawText(esResp) ==
    [esResp EXCEPT !.Error = esResp.RawError, !.RawError = <<>>]

\* Lines 527-532 of Do: the error member as one string
UnifyError(esResp) ==
    [esResp EXCEPT
        !.Error = IF Len(esResp.RawError) > 0 /\ esResp.RawError[1] = Quote
                  THEN UnquoteString(esResp.RawError)
                  ELSE esResp.RawError,
        !.RawError = <<>>]

\* Decode judging failure by the HTTP status: a SearchError only from 400 on
DecodeByStatus(r, body, esResp) ==
    LET dec == IF r.Method # "HEAD" THEN Unmarshal(body, esResp)
               ELSE [resp |-> esResp, err |-> NilError]
    IN  IF dec.err # NilError THEN [resp |-> dec.resp, err |-> dec.err]
        ELSE LET u == UnifyError(dec.resp)
             IN  IF u.Error # <<>> /\ u.Status >= 400
                 THEN [resp |-> u, err |-> SearchError(u.Error, u.Status)]
                 ELSE [resp |-> u, err |-> NilError]

\* Decode without the exemption of HEAD requests
DecodeHeadToo(r, body, esResp) ==
    LET dec == Unmarshal(body, esResp)
    IN  IF dec.err # NilError THEN [resp |-> dec.resp, err |-> dec.err]
        ELSE LET u == UnifyError(dec.resp)
             IN  IF u.Error # <<>>
                 THEN [resp |-> u, err |-> SearchError(u.Error, u.Status)]
                 ELSE [resp |-> u, err |-> NilError]

\* Lines 516-538 of Do, after a round trip without error
Decode(r, body, esResp) ==
    LET dec == IF r.Method # "HEAD" THEN Unmarshal(body, esResp)
               ELSE [resp |-> esResp, err |-> NilError]
    IN  IF dec.err # NilError THEN [resp |-> dec.resp, err |-> dec.err]
        ELSE LET u == UnifyError(dec.resp)
             IN  IF u.Error # <<>>
                 THEN [resp |-> u, err |-> SearchError(u.Error, u.Status)]
                 ELSE [resp |-> u, err |-> NilError]

\* Do repeating the round trip once after a transport error
DoRetry(r, o) ==
    IF ~RequestBuilds(r)
    THEN [resp |-> EmptyResponse, err |-> MarshalError, calls |-> 0]
    ELSE LET d == doRequest(o)
             esResp == [EmptyResponse EXCEPT !.Status = d.statusCode]
         IN  IF d.err # NilError
             THEN [resp |-> esResp, err |-> d.err, calls |-> 2]
             ELSE LET out == Decode(r, d.body, esResp)
                  IN  [resp |-> out.resp, err |-> out.err, calls |-> 1]

\* Client.Do: calls counts the invocations of the HTTP client.
Do(r, o) ==
    IF ~RequestBuilds(r)
    THEN [resp |-> EmptyResponse, err |-> MarshalError, calls |-> 0]
    ELSE LET d == doRequest(o)
             esResp == [EmptyResponse EXCEPT !.Status = d.statusCode]
         IN  IF d.err # NilError
             THEN [resp |-> esResp, err |-> d.err, calls |-> 1]
             ELSE LET out == Decode(r, d.body, esResp)
                  IN  [resp |-> out.resp, err |-> out.err, calls |-> 1]

(* ------------------------- request builders ---------------------------- *)
Req(method) == [EmptyRequest EXCEPT !.Method = method]

CreateIndexRequest(name, mapping) ==
    [Req("PUT") EXCEPT !.Query = mapping, !.IndexList = <<name>>]

DeleteIndexRequest(name) == [Req("DELETE") EXCEPT !.IndexList = <<name>>]

RefreshIndexRequest(name) ==
    [Req("POST") EXCEPT !.IndexList = <<name>>, !.API = "_refresh"]

UpdateIndexSettingsRequest(name, settings) ==
    [Req("PUT") EXCEPT !.Query = settings, !.IndexList = <<name>>, !.API = "_settings"]

OptimizeRequest(indexList, extraArgs) ==
    [Req("POST") EXCEPT !.IndexList = indexList, !.ExtraArgs = extraArgs,
                        !.API = "_optimize"]

StatsRequest(indexList, extraArgs) ==
    [Req("GET") EXCEPT !.IndexList = indexList, !.ExtraArgs = extraArgs, !.API = "_stats"]

IndexStatusRequest(indexList) ==
    [Req("GET") EXCEPT !.IndexList = indexList, !.API = "_status"]

SearchRequest(query, indexList, typeList, extraArgs) ==
    [Req("POST") EXCEPT !.Query = query, !.IndexList = indexList, !.TypeList = typeList,
                        !.API = "_search", !.ExtraArgs = extraArgs]

CountRequest(query, indexList, typeList, extraArgs) ==
    [Req("POST") EXCEPT !.Query = query, !.IndexList = indexList, !.TypeList = typeList,
                        !.API = "_count", !.ExtraArgs = extraArgs]

QueryRequest(query, indexList, typeList, httpMethod, extraArgs) ==
    [Req(httpMethod) EXCEPT !.Query = query, !.IndexList = indexList,
                            !.TypeList = typeList, !.API = "_query",
                            !.ExtraArgs = extraArgs]

ScanRequest(query, indexList, typeList, timeout, size) ==
    [Req("POST") EXCEPT !.Query = query, !.IndexList = indexList, !.TypeList = typeList,
                        !.API = "_search",
                        !.ExtraArgs = << <<"search_type", "scan">>, <<"scroll", timeout>>,
                                         <<"size", ToString(size)>> >>]

\* ScrollRequest that also passes the timeout as a Query payload
ScrollRequestWithQuery(scrollID, timeout) ==
    [Req("POST") EXCEPT !.API = "_search/scroll",
                        !.ExtraArgs = << <<"scroll", timeout>> >>,
                        !.Query = timeout,
                        !.Body = scrollID]

ScrollRequest(scrollID, timeout) ==
    [Req("POST") EXCEPT !.API = "_search/scroll",
                        !.ExtraArgs = << <<"scroll", timeout>> >>,
                        !.Body = scrollID]

GetRequest(index, documentType, id, extraArgs) ==
    [Req("GET") EXCEPT !.IndexList = <<index>>, !.API = documentType \o "/" \o id,
                       !.ExtraArgs = extraArgs]

\* d.Index.(string) and d.ID.(string) panic on a nil interface
IndexPanics(d) == d.Index = NilValue

IndexRequest(d, extraArgs) ==
    LET r == [Req("POST") EXCEPT !.Query = d.Fields, !.IndexList = <<d.Index>>,
                                 !.TypeList = <<d.Type>>, !.ExtraArgs = extraArgs]
    IN  IF d.ID # NilValue THEN [r EXCEPT !.Method = "PUT", !.ID = d.ID] ELSE r

\* Delete guarding the ID with a nil check, as Update does
DeletePanicsIndexOnly(d) == d.Index = NilValue

DeletePanics(d) == d.Index = NilValue \/ d.ID = NilValue

DeleteRequest(d, extraArgs) ==
    [Req("DELETE") EXCEPT !.IndexList = <<d.Index>>, !.TypeList = <<d.Type>>,
                          !.ExtraArgs = extraArgs, !.ID = d.ID]

PutMappingRequest(typeName, mapping, indexes) ==
    [Req("PUT") EXCEPT !.Query = mapping, !.IndexList = indexes,
                       !.API = "_mappings/" \o typeName]

\* strings.Join(a, sep)
RECURSIVE StringsJoin(_, _)
StringsJoin(a, sep) ==
    IF Len(a) = 0 THEN ""
    ELSE IF Len(a) = 1 THEN a[1]
    ELSE a[1] \o sep \o StringsJoin(Tail(a), sep)

GetMappingRequest(types, indexes) ==
    [Req("GET") EXCEPT !.IndexList = indexes,
                       !.API = "_mapping/" \o StringsJoin(types, ",")]

IndicesExistRequest(indexes) == [Req("HEAD") EXCEPT !.IndexList = indexes]

UpdatePanics(d) == d.Index = NilValue

UpdateRequest(d, query, extraArgs) ==
    LET r == [Req("POST") EXCEPT !.Query = query, !.IndexList = <<d.Index>>,
                                 !.TypeList = <<d.Type>>, !.ExtraArgs = extraArgs,
                                 !.API = "_update"]
    IN  IF d.ID # NilValue THEN [r EXCEPT !.ID = d.ID] ELSE r

DeleteMappingRequest(typeName, indexes) ==
    [Req("DELETE") EXCEPT !.IndexList = indexes, !.API = "_mappings/" \o typeName]

\* The command map of modifyAlias: a payload json.Marshal always accepts.
modifyAliasRequest(action, alias, indexes) ==
    [Req("POST") EXCEPT
        !.Query = "{actions:[null" \o
                  StringsJoin([k \in 1..Len(indexes) |->
                                  ",{" \o action \o ":" \o indexes[k] \o "," \o alias \o "}"],
                              "")
                  \o "]}",
        !.API = "_aliases"]

AliasExistsRequest(alias) == [Req("HEAD") EXCEPT !.API = "_alias/" \o alias]

(* ---------------------- BulkSend after the round trip ------------------ *)
\* the Item values of one element of Items
Entries(item) == {item[k] : k \in DOMAIN item}
HasItemError(item) == \E i \in Entries(item) : i.Error # <<>>

\* BulkErrors reporting the last element of Items with an error, not the first
BulkErrorsLast(out) ==
    IF out.err # NilError THEN {out.err}
    ELSE IF out.resp.Errors
    THEN LET bad == {k \in 1..Len(out.resp.Items) : HasItemError(out.resp.Items[k])}
         IN  IF bad = {} THEN {UnknownBulkError}
             ELSE LET last == CHOOSE k \in bad : \A j \in bad : k >= j
                  IN  {SearchError(i.Error, i.Status) :
                         i \in {e \in Entries(out.resp.Items[last]) : e.Error # <<>>}}
    ELSE {out.err}

\* Lines 208-224: the errors BulkSend may return for the result of Do.  The
\* inner loop ranges over a Go map, so within one element any entry with an
\* error may be met first.
BulkErrors(out) ==
    IF out.err # NilError THEN {out.err}
    ELSE IF out.resp.Errors
    THEN LET bad == {k \in 1..Len(out.resp.Items) : HasItemError(out.resp.Items[k])}
         IN  IF bad = {} THEN {UnknownBulkError}
             ELSE LET first == CHOOSE k \in bad : \A j \in bad : k <= j
                  IN  {SearchError(i.Error, i.Status) :
                         i \in {e \in Entries(out.resp.Items[first]) : e.Error # <<>>}}
    ELSE {out.err}

(* ------------------------------ inputs --------------------------------- *)
Names == {"a"}
IndexLists == {<<"a">>, <<"a", "b">>}
TypeLists == {<<>>, <<"t">>}
\* a query / mapping / settings payload: nil, serializable, not serializable
Payloads == {NilValue, "{query}", "<chan>"}
ExtraArgsValues == {<<>>, << <<"routing", "r">> >>}
ScrollIDs == {<<>>, <<"c2Nhbg">>}
Timeouts == {"1m"}
Sizes == {10}
Methods == {"GET", "DELETE"}

Document(index, type, id, fields, command) ==
    [Index |-> index, Type |-> type, ID |-> id, Fields |-> fields, BulkCommand |-> command]
NoDoc == Document(NilValue, "", NilValue, NilValue, "")

\* Documents handed to Index, Update and Delete
SingleDocuments ==
    {Document(i, "t", id, f, BulkCommandIndex) :
        i \in {NilValue, "a"}, id \in {NilValue, "1"}, f \in {NilValue, "map[k:v]"}}

\* Documents of the batches whose encoding is examined
BulkDocuments ==
    {Document(k[1], "t", k[2], f, c) :
        k \in {<<"a", "1">>, <<"a", NilValue>>, <<"<chan>", "1">>},
        f \in FieldsValues, c \in {BulkCommandIndex, BulkCommandDelete}}

\* Documents of the batches sent while every reply of the engine is examined
SendDocuments ==
    { Document("a", "t", "1", "map[k:v]", BulkCommandIndex),
      Document("a", "t", "1", NilValue, BulkCommandDelete),
      Document("a", "t", NilValue, "struct{K}", BulkCommandIndex),
      Document("a", "t", "1", "int", BulkCommandIndex),
      Document("a", "t", "1", "map[k:chan]", BulkCommandIndex) }

\* the replies under which the encoding is examined
EncodeReplies ==
    {o \in Replies("POST") :
        \/ o.kind = "connFail"
        \/ o.kind = "ok" /\ o.status = 200 /\ o.body.valid /\ o.body.json = EmptyJSON}

(* ------------------------------- state --------------------------------- *)
\* op     the last public operation called ("none" before the first call)
\* docs   the batch it was given (BulkSend), doc the Document (Index, Update, Delete)
\* req    the Request handed to Do, as a sequence of length 0 or 1
\* reply  what the HTTP client answered, NoReply if it was not invoked
\* calls  how often the HTTP client was invoked during the call
\* resp, err   the returned *Response and error; exists the returned bool
Init ==
    /\ op = "none"
    /\ docs = <<>>
    /\ doc = NoDoc
    /\ req = <<>>
    /\ reply = NoReply
    /\ calls = 0
    /\ resp = EmptyResponse
    /\ err = NilError
    /\ exists = FALSE

\* The client keeps nothing between calls (its configuration is fixed), and a
\* call runs to completion before the caller makes the next one.
Ready == op = "none"

Return(name, ds, d, r, o, out, ex) ==
    /\ op' = name
    /\ docs' = ds
    /\ doc' = d
    /\ req' = r
    /\ reply' = IF out.calls > 0 THEN o ELSE NoReply
    /\ calls' = out.calls
    /\ resp' = out.resp
    /\ err' = out.err
    /\ exists' = ex

\* return c.Do(&r)
Call(name, d, r) ==
    \E o \in Replies(r.Method) : Return(name, <<>>, d, <<r>>, o, Do(r, o), FALSE)

\* a type assertion on the Document failed while the Request was built
Panic(name, d) ==
    Return(name, <<>>, d, <<>>, NoReply,
           [resp |-> EmptyResponse, err |-> TypeAssertionPanic, calls |-> 0], FALSE)

(* ------------------------------ operations ----------------------------- *)
CreateIndex ==
    /\ Ready
    /\ \E name \in Names, mapping \in Payloads :
        Call("CreateIndex", NoDoc, CreateIndexRequest(name, mapping))

DeleteIndex ==
    /\ Ready
    /\ \E name \in Names : Call("DeleteIndex", NoDoc, DeleteIndexRequest(name))

RefreshIndex ==
    /\ Ready
    /\ \E name \in Names : Call("RefreshIndex", NoDoc, RefreshIndexRequest(name))

UpdateIndexSettings ==
    /\ Ready
    /\ \E name \in Names, settings \in Payloads :
        Call("UpdateIndexSettings", NoDoc, UpdateIndexSettingsRequest(name, settings))

Optimize ==
    /\ Ready
    /\ \E indexList \in IndexLists, extraArgs \in ExtraArgsValues :
        Call("Optimize", NoDoc, OptimizeRequest(indexList, extraArgs))

Stats ==
    /\ Ready
    /\ \E indexList \in IndexLists, extraArgs \in ExtraArgsValues :
        Call("Stats", NoDoc, StatsRequest(indexList, extraArgs))

IndexStatus ==
    /\ Ready
    /\ \E indexList \in IndexLists : Call("IndexStatus", NoDoc, IndexStatusRequest(indexList))

\* BulkSend over the batches in D and the replies in R
BulkSendOn(D, R) ==
    /\ Ready
    /\ \E documents \in D :
        LET built == BulkRequest(documents)
        IN  IF built.err # NilError
            THEN Return("BulkSend", documents, NoDoc, <<>>, NoReply,
                        [resp |-> EmptyResponse, err |-> built.err, calls |-> 0], FALSE)
            ELSE \E o \in R :
                    LET out == Do(built.r, o)
                    IN  \E e \in BulkErrors(out) :
                           Return("BulkSend", documents, NoDoc, <<built.r>>, o,
                                  [out EXCEPT !.err = e], FALSE)

BulkSend == BulkSendOn(SeqsUpTo(SendDocuments, MaxDocs), Replies("POST"))

Search ==
    /\ Ready
    /\ \E query \in Payloads, indexList \in IndexLists, typeList \in TypeLists :
        Call("Search", NoDoc, SearchRequest(query, indexList, typeList, <<>>))

Count ==
    /\ Ready
    /\ \E query \in Payloads, typeList \in TypeLists, extraArgs \in ExtraArgsValues :
        Call("Count", NoDoc, CountRequest(query, <<"a">>, typeList, extraArgs))

Query ==
    /\ Ready
    /\ \E query \in Payloads, httpMethod \in Methods :
        Call("Query", NoDoc, QueryRequest(query, <<"a">>, <<"t">>, httpMethod, <<>>))

Scan ==
    /\ Ready
    /\ \E query \in Payloads, timeout \in Timeouts, size \in Sizes :
        Call("Scan", NoDoc, ScanRequest(query, <<"a">>, <<"t">>, timeout, size))

Scroll ==
    /\ Ready
    /\ \E scrollID \in ScrollIDs, timeout \in Timeouts :
        Call("Scroll", NoDoc, ScrollRequest(scrollID, timeout))

Get ==
    /\ Ready
    /\ \E index \in Names, extraArgs \in ExtraArgsValues :
        Call("Get", NoDoc, GetRequest(index, "t", "1", extraArgs))

Index ==
    /\ Ready
    /\ \E d \in SingleDocuments :
        IF IndexPanics(d) THEN Panic("Index", d)
        ELSE Call("Index", d, IndexRequest(d, <<>>))

Delete ==
    /\ Ready
    /\ \E d \in SingleDocuments :
        IF DeletePanics(d) THEN Panic("Delete", d)
        ELSE Call("Delete", d, DeleteRequest(d, <<>>))

PutMapping ==
    /\ Ready
    /\ \E mapping \in Payloads, indexes \in IndexLists :
        Call("PutMapping", NoDoc, PutMappingRequest("t", mapping, indexes))

GetMapping ==
    /\ Ready
    /\ \E types \in TypeLists, indexes \in IndexLists :
        Call("GetMapping", NoDoc, GetMappingRequest(types, indexes))

\* resp, err := c.Do(&r); return resp.Status == 200, err
ExistsCall(name, r) ==
    \E o \in Replies(r.Method) :
        LET out == Do(r, o)
        IN  Return(name, <<>>, NoDoc, <<r>>, o, out, out.resp.Status = 200)

IndicesExist ==
    /\ Ready
    /\ \E indexes \in IndexLists : ExistsCall("IndicesExist", IndicesExistRequest(indexes))

Update ==
    /\ Ready
    /\ \E d \in SingleDocuments, query \in Payloads :
        IF UpdatePanics(d) THEN Panic("Update", d)
        ELSE Call("Update", d, UpdateRequest(d, query, <<>>))

DeleteMapping ==
    /\ Ready
    /\ \E indexes \in IndexLists :
        Call("DeleteMapping", NoDoc, DeleteMappingRequest("t", indexes))

AddAlias ==
    /\ Ready
    /\ \E indexes \in IndexLists :
        Call("AddAlias", NoDoc, modifyAliasRequest("add", "al", indexes))

RemoveAlias ==
    /\ Ready
    /\ \E indexes \in IndexLists :
        Call("RemoveAlias", NoDoc, modifyAliasRequest("remove", "al", indexes))

AliasExists ==
    /\ Ready
    /\ \E alias \in {"al"} : ExistsCall("AliasExists", AliasExistsRequest(alias))

\* The caller is done with the result of the last call.
Idle ==
    /\ op # "none"
    /\ op' = "none"
    /\ docs' = <<>>
    /\ doc' = NoDoc
    /\ req' = <<>>
    /\ reply' = NoReply
    /\ calls' = 0
    /\ resp' = EmptyResponse
    /\ err' = NilError
    /\ exists' = FALSE

Next ==
    \/ Idle
    \/ DeleteIndex \/ CreateIndex \/ RefreshIndex \/ UpdateIndexSettings
    \/ Optimize \/ Stats \/ IndexStatus
    \/ BulkSend
    \/ Search \/ Count \/ Query \/ Scan \/ Scroll
    \/ Get \/ Index \/ Delete
    \/ PutMapping \/ GetMapping \/ DeleteMapping
    \/ IndicesExist \/ AliasExists
    \/ Update
    \/ AddAlias \/ RemoveAlias

Spec == Init /\ [][Next]_vars

\* The bulk encoder alone: every shape of batch, a plain round trip.
BulkEncode == BulkSendOn(SeqsUpTo(BulkDocuments, MaxDocs), EncodeReplies)

NextEncode == BulkEncode \/ Idle

SpecEncode == Init /\ [][NextEncode]_vars

(* ======================================================================= *)
(*                               properties                                *)
(* ======================================================================= *)
\* 202..399, the statuses doRequest reports as an error
AnomalousStatus(s) == s >= 202 /\ s <= 399

\* The call made one round trip, the body arrived with a status outside
\* 202..399, was decoded (the request was no HEAD) and is a JSON object.
Decoded ==
    /\ op # "none"
    /\ calls = 1
    /\ reply.kind = "ok"
    /\ ~AnomalousStatus(reply.status)
    /\ req[1].Method # "HEAD"
    /\ reply.body.valid

\* The body's "error" member is present and is not the empty string.
ErrorIndicated(body) == body.json.error \notin {<<>>, <<Quote, Quote>>}

\* Some entry of the body's "items" has a non-empty error.
ItemErrorIndicated(body) ==
    \E k \in 1..Len(body.json.items) : HasItemError(body.json.items[k])

\* The SearchErrors made from the entries with an error of the first element
\* of "items" that has one.
FirstItemErrors(body) ==
    LET bad == {k \in 1..Len(body.json.items) : HasItemError(body.json.items[k])}
        first == CHOOSE k \in bad : \A j \in bad : k <= j
    IN  {[kind |-> "SearchError", Msg |-> e.Error, StatusCode |-> e.Status] :
            e \in {x \in Entries(body.json.items[first]) : x.Error # <<>>}}

(* ------------------------------- C1 ------------------------------------ *)
\* C1 as stated: whenever a decoded body carries a non-empty top-level error,
\* or (BulkSend) any entry of Items carries a non-empty error, the call returns
\* a SearchError with the Response, whatever the Errors flag.
C1_AsStated ==
    (Decoded /\ (\/ ErrorIndicated(reply.body)
                 \/ op = "BulkSend" /\ ItemErrorIndicated(reply.body)))
        => (err.kind = "SearchError" /\ resp.Raw = <<reply.body.json>>)

\* C1 amended: whenever a decoded body carries a non-empty top-level error, or
\* (BulkSend) the Errors flag is true and an entry of Items carries a non-empty
\* error, the call returns a SearchError together with the decoded Response.
C1_ErrorNeverSuccess ==
    (Decoded /\ (\/ ErrorIndicated(reply.body)
                 \/ op = "BulkSend" /\ reply.body.json.errors
                                    /\ ItemErrorIndicated(reply.body)))
        => (err.kind = "SearchError" /\ resp.Raw = <<reply.body.json>>)

C1_Witness ==
    /\ Decoded
    /\ op = "BulkSend"
    /\ reply.status = 200
    /\ ~ErrorIndicated(reply.body)
    /\ reply.body.json.errors
    /\ ItemErrorIndicated(reply.body)
    /\ err.kind = "SearchError"

(* ------------------------------- C4 ------------------------------------ *)
\* Do returned no error to BulkSend
BulkDoSucceeded == Decoded /\ op = "BulkSend" /\ ~ErrorIndicated(reply.body)

\* C4 as stated: after a round trip and decoding without error, an Errors flag
\* that is true makes BulkSend return the SearchError of the first entry of
\* Items with a non-empty error, and an Errors flag that is false a nil error.
C4_AsStated ==
    BulkDoSucceeded =>
        IF reply.body.json.errors
        THEN ItemErrorIndicated(reply.body) /\ err \in FirstItemErrors(reply.body)
        ELSE err = NilError

\* C4 amended: with the Errors flag true BulkSend returns the SearchError of an
\* entry with a non-empty error of the first element of Items that has one, and
\* when no entry has one the SearchError "Unknown error while bulk indexing"
\* with StatusCode 0; with the Errors flag false it returns a nil error.
C4_BulkItemError ==
    BulkDoSucceeded =>
        /\ resp.Raw = <<reply.body.json>>
        /\ IF reply.body.json.errors
           THEN IF ItemErrorIndicated(reply.body)
                THEN err \in FirstItemErrors(reply.body)
                ELSE err = [kind |-> "SearchError",
                            Msg |-> <<"Unknown error while bulk indexing">>,
                            StatusCode |-> 0]
           ELSE err = NilError

C4_Witness ==
    /\ BulkDoSucceeded
    /\ reply.status = 200
    /\ reply.body.json.errors
    /\ Len(reply.body.json.items) = 2
    /\ HasItemError(reply.body.json.items[1])
    /\ HasItemError(reply.body.json.items[2])
    /\ reply.body.json.items[1] # reply.body.json.items[2]
    /\ err = [kind |-> "SearchError", Msg |-> <<"conflict">>, StatusCode |-> 409]

(* ------------------------------- C5 ------------------------------------ *)
TransportErrorKinds == {"http.Client", "ioutil.ReadAll", "errors.New"}

\* C5: when the HTTP client fails or answers with a status in 202..399, the
\* call returns an error that is no SearchError and a Response in which only
\* Status is set (0 on a connection failure, else the HTTP status), the body
\* not being decoded; with 200, 201 and every status >= 400 that path is not
\* taken.
C5_TransportError ==
    calls = 1 =>
        /\ (reply.kind # "ok" \/ AnomalousStatus(reply.status)) =>
              /\ err.kind \in TransportErrorKinds
              /\ resp = [Status |-> IF reply.kind = "connFail" THEN 0 ELSE reply.status,
                         Error |-> <<>>, RawError |-> <<>>, Errors |-> FALSE,
                         Items |-> <<>>, Raw |-> <<>>]
        /\ (reply.kind = "ok" /\ (reply.status \in {200, 201} \/ reply.status >= 400)) =>
              err.kind \notin TransportErrorKinds

C5_Witness ==
    /\ calls = 1
    /\ reply.kind = "ok"
    /\ reply.status = 399
    /\ reply.body.valid
    /\ ErrorIndicated(reply.body)
    /\ err.kind = "errors.New"
    /\ resp.Status = 399
    /\ resp.Raw = <<>>

(* ------------------------------- C6 ------------------------------------ *)
\* C6: for a request that is no HEAD, whose round trip succeeds with a status
\* outside 202..399 and whose body decodes, Do returns a SearchError exactly
\* when the body's error member is a non-empty string or a non-string value;
\* its Msg is Response.Error and its StatusCode Response.Status, the Response
\* carries the decoded Raw, and otherwise the error is nil whatever the status.
C6_SearchErrorIffError ==
    (Decoded /\ op # "BulkSend") =>
        /\ resp.Raw = <<reply.body.json>>
        /\ (resp.Error # <<>>) <=> ErrorIndicated(reply.body)
        /\ IF ErrorIndicated(reply.body)
           THEN err = [kind |-> "SearchError", Msg |-> resp.Error,
                       StatusCode |-> resp.Status]
           ELSE err = NilError

C6_Witness ==
    /\ Decoded
    /\ op = "Search"
    /\ reply.status = 200
    /\ reply.body.json.error = <<Quote, "boom", Quote>>
    /\ err = [kind |-> "SearchError", Msg |-> <<"boom">>, StatusCode |-> 200]
    /\ resp.Raw # <<>>

(* ------------------------------- C7 ------------------------------------ *)
\* C7: IndicesExist returns true exactly when the HTTP status is 200, and for
\* every status outside 202..399 a nil error whatever the body holds.
C7_IndicesExist ==
    op = "IndicesExist" =>
        /\ exists <=> (reply.kind = "ok" /\ reply.status = 200)
        /\ (reply.kind = "ok" /\ ~AnomalousStatus(reply.status)) => err = NilError

C7_Witness ==
    /\ op = "IndicesExist"
    /\ reply.kind = "ok"
    /\ reply.status = 404
    /\ reply.body.valid
    /\ ErrorIndicated(reply.body)
    /\ ~exists
    /\ err = NilError

(* ------------------------------- C8 ------------------------------------ *)
\* C8 as stated: Update and Delete called with a Document whose Index or ID is
\* nil fail with a type assertion before a Request is built or sent.
C8_AsStated ==
    (op \in {"Update", "Delete"} /\ (doc.Index = NilValue \/ doc.ID = NilValue))
        => (err.kind = "panic" /\ req = <<>> /\ calls = 0)

\* C8 amended: Delete with a nil Index or ID, and Update with a nil Index, fail
\* with a type assertion before a Request is built or sent; Update with a nil
\* ID and a string Index builds the Request with an empty ID and hands it to Do.
C8_AbsentIndexOrID ==
    /\ ((op = "Delete" /\ (doc.Index = NilValue \/ doc.ID = NilValue))
          \/ (op = "Update" /\ doc.Index = NilValue))
         => (err.kind = "panic" /\ req = <<>> /\ calls = 0)
    /\ (op = "Update" /\ doc.Index # NilValue /\ doc.ID = NilValue)
         => /\ err.kind # "panic"
            /\ req # <<>>
            /\ req[1].ID = ""
            /\ req[1].API = "_update"
            /\ (req[1].Query # "<chan>" => calls = 1)

C8_Witness ==
    /\ op = "Delete"
    /\ doc.Index # NilValue
    /\ doc.ID = NilValue
    /\ err.kind = "panic"
    /\ calls = 0

(* ------------------------------- C9 ------------------------------------ *)
\* how many of Query, Body and BulkData a Request populates
Populated(r) ==
    (IF r.Query # NilValue THEN 1 ELSE 0)
    + (IF Len(r.Body) > 0 THEN 1 ELSE 0)
    + (IF Len(r.BulkData) > 0 THEN 1 ELSE 0)

BodyLessOperations ==
    {"DeleteIndex", "RefreshIndex", "Optimize", "Stats", "IndexStatus", "Get", "Delete",
     "GetMapping", "DeleteMapping", "IndicesExist", "AliasExists"}

\* C9 as stated: the Request of every operation populates exactly one of
\* Query, Body and BulkData.
C9_AsStated == req # <<>> => Populated(req[1]) = 1

\* C9 amended: the Request of every operation populates at most one of Query,
\* Body and BulkData: none for the body-less operations, only Body for Scroll,
\* only BulkData for BulkSend, only Query for the others.
C9_AtMostOneBody ==
    req # <<>> =>
        /\ Populated(req[1]) <= 1
        /\ op \in BodyLessOperations => Populated(req[1]) = 0
        /\ op = "Scroll" => (req[1].Query = NilValue /\ req[1].BulkData = <<>>)
        /\ op = "BulkSend" => (req[1].Query = NilValue /\ req[1].Body = <<>>)
        /\ op \notin {"Scroll", "BulkSend"} => (req[1].Body = <<>> /\ req[1].BulkData = <<>>)

C9_Witness ==
    /\ op = "Scroll"
    /\ req # <<>>
    /\ Len(req[1].Body) > 0
    /\ Populated(req[1]) = 1
    /\ calls = 1

(* ------------------------------- C10 ----------------------------------- *)
\* Fields BulkSend rejects: neither nil, nor map, nor struct, or not serializable
RejectedFields(f) ==
    f # NilValue /\ f \notin {"map[]", "map[k:v]", "struct{}", "struct{K}", "&struct{K}"}

\* C10: a call invokes the HTTP client at most once whatever the outcome, and
\* not at all when it ends with a construction error: a batch with rejected
\* Fields in any Document, or a Request whose payload cannot be serialized.
C10_AtMostOneRoundTrip ==
    /\ calls \in {0, 1}
    /\ (calls = 0) <=> (reply = NoReply)
    /\ (op = "BulkSend" /\ \E k \in 1..Len(docs) : RejectedFields(docs[k].Fields))
         => (calls = 0 /\ req = <<>>
             /\ err.kind \in {"json.Marshal", "fmt.Errorf"} /\ resp.Raw = <<>>)
    /\ (req # <<>> /\ req[1].Query = "<chan>") => (calls = 0 /\ err.kind = "json.Marshal")
    /\ err.kind \in {"json.Marshal", "fmt.Errorf", "panic"} => calls = 0

C10_Witness ==
    /\ op = "BulkSend"
    /\ Len(docs) = 2
    /\ ~RejectedFields(docs[1].Fields)
    /\ docs[1].Fields # NilValue
    /\ RejectedFields(docs[2].Fields)
    /\ calls = 0
    /\ err.kind = "fmt.Errorf"

(* ---------------------------- C2 and C3 -------------------------------- *)
\* bytes.Split(b, "\n"): the segments between newlines
RECURSIVE SplitFrom(_, _, _)
SplitFrom(b, k, cur) ==
    IF k > Len(b) THEN <<cur>>
    ELSE IF b[k] = NL THEN <<cur>> \o SplitFrom(b, k + 1, <<>>)
    ELSE SplitFrom(b, k + 1, Append(cur, b[k]))

Split(b) == SplitFrom(b, 1, <<>>)

\* C2: the BulkData BulkSend hands to the transport ends with exactly one
\* newline: its last byte is a newline and the byte before it, if any, is not.
C2_OneTrailingNewline ==
    (op = "BulkSend" /\ req # <<>>) =>
        LET b == req[1].BulkData
        IN  /\ Len(b) >= 1
            /\ b[Len(b)] = NL
            /\ Len(b) >= 2 => b[Len(b) - 1] # NL

\* the Fields the claim calls non-empty
NonEmptyFields(f) == f \in {"map[k:v]", "struct{K}", "&struct{K}"}

\* the JSON lines C3 gives a batch
RECURSIVE ClaimedLines(_)
ClaimedLines(ds) ==
    IF ds = <<>> THEN <<>>
    ELSE LET d == Head(ds)
         IN  <<MarshalAction(d)>>
             \o (IF d.BulkCommand = "index" /\ NonEmptyFields(d.Fields)
                 THEN <<MarshalFields(d.Fields)>> ELSE <<>>)
             \o ClaimedLines(Tail(ds))

\* C3: each Document contributes, in input order, the action line and then
\* the source line when its BulkCommand is index and its Fields non-empty, and
\* the action line alone when its BulkCommand is delete or its Fields empty.
C3_LinesPerDocument ==
    (op = "BulkSend" /\ req # <<>>) =>
        SelectSeq(Split(req[1].BulkData), LAMBDA seg : seg # <<>>) = ClaimedLines(docs)

====
